---- MODULE Spec2Model ----
(***************************************************************************)
(* Resume generator backend: the LangGraph pipeline of main.py             *)
(* (extract_info -> generate_projects -> generate_skills ->                *)
(* create_metadata -> generate_latex -> END), the assembly stage           *)
(* create_metadata, and the rendering stage of latex_handler.py            *)
(* (escape_latex, generate_latex, get_latex_template), the fallback chain  *)
(* and the retry wrapper of online_compiler.py (compile_latex_online,      *)
(* compile_latex_with_retry), and several generate_resume requests that    *)
(* run at the same time.                                                   *)
(*                                                                         *)
(* Text is a sequence of atoms.  An atom is one character ("%", "{", "a")  *)
(* or a run of characters that no replacement rule can match (a word such  *)
(* as "textbackslash", or a stretch of static LaTeX).  Python's None is    *)
(* the empty set and a present value v is {v}.  A dict is a function       *)
(* whose domain is its set of keys.                                        *)
(***************************************************************************)
EXTENDS Integers, Sequences, FiniteSets, TLC

VARIABLES
    \* one generate_resume request (main.py)
    phase,      \* "idle", "running", "aborted", "responded"
    state,      \* the AgentState threaded through the graph
    frontier,   \* the nodes the graph has scheduled to run next
    active,     \* the nodes that were entered and have not returned yet
    started,    \* history: the nodes in the order they were entered
    returned,   \* history: the nodes in the order they returned
    error,      \* the exception that left graph.invoke, or None
    response,   \* the JSON response of generate_resume, or None
    \* create_metadata called as a function
    asmIn,      \* the AgentState given to create_metadata, or None
    asmOut,     \* the ResumeMetadata it built, or None
    \* escape_latex and generate_latex called as functions
    call,       \* "none", "escape_latex", "generate_latex" or "generate_latex raised"
    escIn,      \* the argument of the escape_latex call
    escOut,     \* what that call returned
    renderIn,   \* the ResumeMetadata given to generate_latex, or None
    renderOut,  \* the document it produced, each atom with its origin
    renderIn2,  \* the ResumeMetadata given to a second generate_latex call, or None
    renderOut2, \* the document the second call produced
    \* one compilation (online_compiler.py)
    cPhase,       \* "idle", "chain", "returned", "sleeping", "done" or "raised"
    entry,        \* the function that was called
    max_retries,  \* the max_retries argument of compile_latex_with_retry
    attempt,      \* the loop variable of compile_latex_with_retry
    svc,          \* index in services of the backend that is tried next
    errors,       \* the errors list of compile_latex_online
    outcomes,     \* history: the backends this chain run tried, and what each met
    chainResult,  \* what the last compile_latex_online returned, or None
    chainLog,     \* history: the success flag of every chain run so far
    waits,        \* history: the argument of every time.sleep so far
    retryResult,  \* what compile_latex_with_retry returned, or None
    \* generate_resume requests that run at the same time (main.py)
    reqs          \* request -> its phase, input, AgentState, history, response

pipeVars == <<phase, state, frontier, active, started, returned, error, response>>

asmVars == <<asmIn, asmOut>>

latexVars == <<call, escIn, escOut, renderIn, renderOut, renderIn2, renderOut2>>

compVars == <<cPhase, entry, max_retries, attempt, svc, errors, outcomes,
              chainResult, chainLog, waits, retryResult>>

concVars == <<reqs>>

vars == <<phase, state, frontier, active, started, returned, error, response,
          asmIn, asmOut, call, escIn, escOut, renderIn, renderOut,
          renderIn2, renderOut2,
          cPhase, entry, max_retries, attempt, svc, errors, outcomes,
          chainResult, chainLog, waits, retryResult, reqs>>

-----------------------------------------------------------------------------
(* Bounds *)

\* longest argument of escape_latex that is enumerated
MaxLen == 3

\* number of generate_resume requests that run at the same time
NumRequests == 2

-----------------------------------------------------------------------------
(* Python values *)

None == {}

Some(v) == {v}

Val(o) == CHOOSE v \in o : TRUE

\* a coding_stats value with its shape: "none", "list", "dict" or "other"
EmptyDict == [k \in {} |-> ""]

NoCodingStats == [kind |-> "none", list |-> <<>>, dict |-> EmptyDict]

\* d.get(k, default)
Get(d, k, default) == IF k \in DOMAIN d THEN d[k] ELSE default

\* str.replace(old, new): leftmost, non-overlapping occurrences; the
\* first occurrence is rewritten and the search resumes right after it
RECURSIVE StrReplace(_, _, _)
StrReplace(s, old, new) ==
    LET n == Len(old)
        at == {i \in 1..(Len(s) - n + 1) : SubSeq(s, i, i + n - 1) = old}
    IN  IF at = {} THEN s
        ELSE LET i == CHOOSE j \in at : \A k \in at : j <= k
             IN  SubSeq(s, 1, i - 1) \o new
                 \o StrReplace(SubSeq(s, i + n, Len(s)), old, new)

\* old in s
Contains(s, old) ==
    \E i \in 1..(Len(s) - Len(old) + 1) : SubSeq(s, i, i + Len(old) - 1) = old

-----------------------------------------------------------------------------
(* latex_handler.py: escape_latex *)

\* the nine characters that escape_latex rewrites
SpecialChars == {"\\", "%", "#", "_", "{", "}", "~", "^", "&"}

\* the ordered rule table of escape_latex
replacements ==
    << <<"\\", <<"\\", "textbackslash", "{", "}">> >>,
       <<"%",  <<"\\", "%">> >>,
       <<"#",  <<"\\", "#">> >>,
       <<"_",  <<"\\", "_">> >>,
       <<"{",  <<"\\", "{">> >>,
       <<"}",  <<"\\", "}">> >>,
       <<"~",  <<"\\", "textasciitilde", "{", "}">> >>,
       <<"^",  <<"\\", "textasciicircum", "{", "}">> >> >>

\* for old, new in replacements: text = text.replace(old, new), from rule i on
RECURSIVE ApplyReplacements(_, _)
ApplyReplacements(text, i) ==
    IF i > Len(replacements) THEN text
    ELSE ApplyReplacements(
             StrReplace(text, <<replacements[i][1]>>, replacements[i][2]), i + 1)

\* the ampersand step, run on the text the rule table produced
EscapeAmpersandSkipsNothing(text) == text

EscapeAmpersand(text) ==
    IF ~Contains(text, <<"\\", "&">>)
    THEN StrReplace(text, <<"&">>, <<"\\", "&">>)
    ELSE text

escape_latex(text) ==
    IF text = <<>> THEN <<>>
    ELSE EscapeAmpersand(ApplyReplacements(text, 1))

-----------------------------------------------------------------------------
(* Inputs of escape_latex *)

Alphabet == SpecialChars \cup {"a"}

RECURSIVE StringsOfLen(_)
StringsOfLen(n) ==
    IF n = 0 THEN {<<>>}
    ELSE {<<c>> \o s : c \in Alphabet, s \in StringsOfLen(n - 1)}

Strings == UNION {StringsOfLen(n) : n \in 0..MaxLen}

-----------------------------------------------------------------------------
(* Documents: text whose atoms carry where they came from                  *)
(*   "template"  get_latex_template                                        *)
(*   "static"    literal text of generate_latex                            *)
(*   "escaped"   returned by escape_latex                                  *)
(*   "raw"       a user- or model-supplied value inserted as it is         *)

Tag(s, o) == [i \in 1..Len(s) |-> [c |-> s[i], o |-> o]]

Chars(d) == [i \in 1..Len(d) |-> d[i].c]

\* str.replace on a document: the match is on the characters alone
RECURSIVE DocReplace(_, _, _)
DocReplace(d, old, new) ==
    LET n == Len(old)
        at == {i \in 1..(Len(d) - n + 1) :
                  d[i].c = old[1] /\ Chars(SubSeq(d, i, i + n - 1)) = old}
    IN  IF at = {} THEN d
        ELSE LET i == CHOOSE j \in at : \A k \in at : j <= k
             IN  SubSeq(d, 1, i - 1) \o new
                 \o DocReplace(SubSeq(d, i + n, Len(d)), old, new)

\* "".join of a sequence of documents
RECURSIVE Concat(_)
Concat(ds) == IF ds = <<>> THEN <<>> ELSE Head(ds) \o Concat(Tail(ds))

\* sep.join of a sequence of documents
RECURSIVE Join(_, _)
Join(sep, ds) ==
    IF ds = <<>> THEN <<>>
    ELSE IF Len(ds) = 1 THEN ds[1]
    ELSE ds[1] \o sep \o Join(sep, Tail(ds))

\* a literal of generate_latex
Lit(s) == Tag(s, "static")

EscSkipped(text) == Tag(text, "raw")

\* escape_latex(value) at an interpolation point of generate_latex
Esc(text) == Tag(escape_latex(text), "escaped")

\* x or default, for an Optional[str] x
OrDefault(x, default) ==
    IF x = None \/ Val(x) = <<>> THEN default ELSE Val(x)

-----------------------------------------------------------------------------
(* latex_handler.py: get_latex_template *)

Placeholder(name) == <<"{", "{", name, "}", "}">>

\* the template text right before and right after {{PROJECTS}}
ProjectsOpen ==
    "  \\resumeSubHeadingListEnd\n\n%-----------PROJECTS-----------\n\\section{Projects}\n    \\resumeSubHeadingListStart\n"

ProjectsClose ==
    "    \\resumeSubHeadingListEnd\n\\vspace{-16pt}\n\n%-----------TECHNICAL SKILLS-----------\n\\section{Technical Skills}\n \\begin{itemize}[leftmargin=0.15in, label={}]\n    \\item{\n     "

get_latex_template ==
    << "%-------------------------\n ... \\begin{document}\n\n%----------HEADING----------\n\\begin{center}\n    ",
       "{", "\\Huge \\scshape " >>
    \o Placeholder("NAME")
    \o << "}", " \\\\ \\vspace{2pt}\n    \\small \\raisebox{-0.1\\height}\\faPhone\\ " >>
    \o Placeholder("PHONE")
    \o << " ~ \\href", "{", "mailto:" >>
    \o Placeholder("EMAIL")
    \o << "}", "{", "\\raisebox{-0.2\\height}\\faEnvelope\\ " >>
    \o Placeholder("EMAIL")
    \o << "}", " ~ \n    \\href", "{", "https://" >>
    \o Placeholder("LINKEDIN")
    \o << "}", "{", "\\raisebox{-0.2\\height}\\faLinkedin\\ LinkedIn", "}",
          "\n\\end{center}\n\n%-----------EXPERIENCE-----------\n\\section{Experience}\n  \\resumeSubHeadingListStart\n" >>
    \o Placeholder("EXPERIENCE")
    \o << "  \\resumeSubHeadingListEnd\n\\vspace{-16pt}\n\n%-----------EDUCATION-----------\n\\section{Education}\n  \\resumeSubHeadingListStart\n" >>
    \o Placeholder("EDUCATION")
    \o << ProjectsOpen >>
    \o Placeholder("PROJECTS")
    \o << ProjectsClose >>
    \o Placeholder("TECHNICAL_SKILLS")
    \o << "\n    }\n \\end{itemize}\n \\vspace{-16pt}\n\n%-----------INVOLVEMENT---------------\n\\section{Position of Responsibility}\n    \\resumeSubHeadingListStart\n" >>
    \o Placeholder("POSITIONS")
    \o << "    \\resumeSubHeadingListEnd\n\n\\end{document}\n" >>

-----------------------------------------------------------------------------
(* latex_handler.py: generate_latex *)

\* the fragment of a section that has no data
ExperiencePlaceholder ==
    << "    \\resumeSubheading", "{", "Add Your Experience Here", "}", "{",
       "Jan 2024 - Present", "}", "{", "Role", "}", "{", "}",
       "\\resumeItemListStart\n        \\resumeItem", "{",
       "Description of your work experience", "}",
       "\n    \\resumeItemListEnd\n\n" >>

EducationPlaceholder ==
    << "    \\resumeSubheading", "{", "Your University", "}", "{",
       "2020 - 2024", "}", "{", "Your Degree", "}", "{", "}",
       "\\vspace", "{", "-7pt", "}", "\n" >>

SkillsPlaceholder ==
    << "\\textbf", "{", "Languages", "}", ": Python, Java, C++ \\\\\n     \\textbf",
       "{", "Technologies", "}", ": React, Node.js, Docker" >>

PositionsPlaceholder ==
    << "        \\resumeSubheading", "{", "Organization Name", "}", "{",
       "2022 - 2024", "}", "{", "Your Role", "}", "{", "}",
       "\\resumeItemListStart\n            \\resumeItem", "{",
       "Description of your responsibilities", "}",
       "\n        \\resumeItemListEnd\n\n" >>

\* f"        \\resumeItem{{{escape_latex(achievement)}}}\n"
ExperienceItem(achievement) ==
    Lit(<<"        \\resumeItem", "{">>) \o Esc(achievement) \o Lit(<<"}", "\n">>)

\* one pass of the loop over metadata.experiences
ExperienceEntry(exp) ==
    LET company  == Esc(Get(exp, "company", <<"Company">>))
        duration == Esc(Get(exp, "duration", <<"Date">>))
        role     == Esc(Get(exp, "role", <<"Role">>))
        ach      == Get(exp, "achievements", <<>>)
    IN  Lit(<<"    \\resumeSubheading", "{">>) \o company
        \o Lit(<<"}", "{">>) \o duration
        \o Lit(<<"}", "{">>) \o role
        \o Lit(<<"}", "{", "}", "\\resumeItemListStart\n">>)
        \o Concat([i \in 1..Len(ach) |-> ExperienceItem(ach[i])])
        \o Lit(<<"    \\resumeItemListEnd\n\n">>)

experience_latex(metadata) ==
    IF Len(metadata.experiences) > 0
    THEN Concat([i \in 1..Len(metadata.experiences) |->
                    ExperienceEntry(metadata.experiences[i])])
    ELSE Lit(ExperiencePlaceholder)

\* one pass of the loop over metadata.education
EducationEntry(edu) ==
    LET institution == Esc(Get(edu, "institution", <<"Institution">>))
        duration    == Esc(Get(edu, "duration", <<"Date">>))
        degree      == Esc(Get(edu, "degree", <<"Degree">>))
    IN  Lit(<<"    \\resumeSubheading", "{">>) \o institution
        \o Lit(<<"}", "{">>) \o duration
        \o Lit(<<"}", "{">>) \o degree
        \o Lit(<<"}", "{", "}", "\\vspace", "{", "-7pt", "}", "\n">>)

education_latex(metadata) ==
    IF Len(metadata.education) > 0
    THEN Concat([i \in 1..Len(metadata.education) |->
                    EducationEntry(metadata.education[i])])
    ELSE Lit(EducationPlaceholder)

\* one pass of the loop over metadata.projects
ProjectEntry(proj) ==
    LET project_name == Esc(Get(proj, "name", <<"Project">>))
        techs        == Get(proj, "technologies", <<>>)
        tech_stack   == Join(Lit(<<",", " ">>), [i \in 1..Len(techs) |-> Esc(techs[i])])
        date         == Esc(Get(proj, "date", <<"Date">>))
        ach          == Get(proj, "achievements", <<>>)
    IN  Lit(<<"    \\resumeProjectHeading", "{", "\\textbf", "{">>) \o project_name
        \o Lit(<<"}", " $|$ ">>) \o tech_stack
        \o Lit(<<"}", "{">>) \o date
        \o Lit(<<"}", "\\resumeItemListStart\n">>)
        \o Concat([i \in 1..Len(ach) |->
                      Lit(<<"      \\resumeItem", "{">>) \o Esc(ach[i]) \o Lit(<<"}", "\n">>)])
        \o Lit(<<"    \\resumeItemListEnd\n">>)

\* no else branch: with no projects the fragment stays ""
projects_latex(metadata) ==
    IF Len(metadata.projects) > 0
    THEN Concat([i \in 1..Len(metadata.projects) |->
                    ProjectEntry(metadata.projects[i])])
    ELSE <<>>

\* technical_skills is the item list of the dict, in insertion order; a value
\* is [kind |-> "list", items |-> the skills] or [kind |-> "int"], a truthy
\* value that cannot be iterated
SkillsLine(item) ==
    Lit(<<"\\textbf", "{">>) \o Esc(item.category) \o Lit(<<"}", ":", " ">>)
    \o Join(Lit(<<",", " ">>),
            [i \in 1..Len(item.skills.items) |-> Esc(item.skills.items[i])])

\* if skills: for a list, non-empty
Truthy(skills) == skills.kind = "int" \/ skills.items # <<>>

technical_skills_latex(metadata) ==
    IF Len(metadata.technical_skills) > 0
    THEN LET kept == SelectSeq(metadata.technical_skills,
                               LAMBDA item : Truthy(item.skills))
         IN  Join(Lit(<<" \\\\\n     ">>), [i \in 1..Len(kept) |-> SkillsLine(kept[i])])
    ELSE Lit(SkillsPlaceholder)

\* one pass of the loop over metadata.positions_of_responsibility
PositionEntry(por) ==
    LET organization == Esc(Get(por, "organization", <<"Organization">>))
        duration     == Esc(Get(por, "duration", <<"Date">>))
        role         == Esc(Get(por, "role", <<"Role">>))
        location     == Esc(Get(por, "location", <<>>))
        description  == Esc(Get(por, "description", <<>>))
    IN  Lit(<<"        \\resumeSubheading", "{">>) \o organization
        \o Lit(<<"}", "{">>) \o duration
        \o Lit(<<"}", "{">>) \o role
        \o Lit(<<"}", "{">>) \o location
        \o Lit(<<"}", "\\resumeItemListStart\n">>)
        \o Lit(<<"            \\resumeItem", "{">>) \o description \o Lit(<<"}", "\n">>)
        \o Lit(<<"        \\resumeItemListEnd\n\n">>)

por_latex_falls_back_on_certifications(metadata) ==
    IF Len(metadata.positions_of_responsibility) > 0
    THEN Concat([i \in 1..Len(metadata.positions_of_responsibility) |->
                    PositionEntry(metadata.positions_of_responsibility[i])])
    ELSE IF Len(metadata.certifications) > 0
    THEN Lit(<<"        \\resumeItem", "{", "Certifications", "}", "\n">>)
    ELSE Lit(PositionsPlaceholder)

por_latex(metadata) ==
    IF Len(metadata.positions_of_responsibility) > 0
    THEN Concat([i \in 1..Len(metadata.positions_of_responsibility) |->
                    PositionEntry(metadata.positions_of_responsibility[i])])
    ELSE Lit(PositionsPlaceholder)

\* ", ".join([... for s in skills]) raises TypeError on a value that is not iterable
GenerateLatexRaises(metadata) ==
    \E i \in 1..Len(metadata.technical_skills) :
        metadata.technical_skills[i].skills.kind = "int"

\* the document generate_latex builds: the nine replacements, in order
GenerateLatexDoc(metadata) ==
    LET d0 == Tag(get_latex_template, "template")
        d1 == DocReplace(d0, Placeholder("NAME"), Esc(metadata.name))
        d2 == DocReplace(d1, Placeholder("EMAIL"), Esc(metadata.email))
        d3 == DocReplace(d2, Placeholder("PHONE"),
                         Esc(OrDefault(metadata.phone, <<"+91 1234567890">>)))
        d4 == DocReplace(d3, Placeholder("LINKEDIN"),
                         Esc(OrDefault(metadata.linkedin, <<"linkedin.com/in/yourprofile">>)))
        d5 == DocReplace(d4, Placeholder("EXPERIENCE"), experience_latex(metadata))
        d6 == DocReplace(d5, Placeholder("EDUCATION"), education_latex(metadata))
        d7 == DocReplace(d6, Placeholder("PROJECTS"), projects_latex(metadata))
        d8 == DocReplace(d7, Placeholder("TECHNICAL_SKILLS"), technical_skills_latex(metadata))
    IN  DocReplace(d8, Placeholder("POSITIONS"), por_latex(metadata))

-----------------------------------------------------------------------------
(* main.py: generate_resume builds the initial state *)

InitialState(resume_text, job_description) ==
    [resume_text        |-> resume_text,
     job_description    |-> job_description,
     extracted_info     |-> None,
     generated_projects |-> None,
     generated_skills   |-> None,
     resume_metadata    |-> None,
     latex_code         |-> None,
     messages           |-> <<>>]

-----------------------------------------------------------------------------
(* main.py: the three nodes that call the reasoning service.  Each takes   *)
(* the state and the value the service returned, and returns               *)
(* {**state, <its field>, "messages": [<its message>]}.                     *)

CountStr(n) == IF n = 0 THEN "0" ELSE IF n = 1 THEN "1" ELSE IF n = 2 THEN "2"
               ELSE IF n = 3 THEN "3" ELSE "many"

\* extracted is ExtractedResumeInfo.model_dump()
extract_resume_info(st, extracted) ==
    [st EXCEPT !.extracted_info = Some(extracted),
               !.messages = << <<"Extracted information from resume">> >>]

\* projects is [p.model_dump() for p in result.projects]
generate_projects(st, projects) ==
    [st EXCEPT !.generated_projects = Some(projects),
               !.messages = << <<"Generated", CountStr(Len(projects)), "relevant projects">> >>]

generate_skills_drops_projects(st, skills) ==
    [st EXCEPT !.generated_skills = Some(skills),
               !.generated_projects = None,
               !.messages = << <<"Generated relevant technical skills">> >>]

\* skills is result.skills
generate_skills(st, skills) ==
    [st EXCEPT !.generated_skills = Some(skills),
               !.messages = << <<"Generated relevant technical skills">> >>]

-----------------------------------------------------------------------------
(* main.py: create_metadata *)

FormatExperience(exp) ==
    [company      |-> Get(exp, "company", <<>>),
     role         |-> Get(exp, "role", <<>>),
     duration     |-> Get(exp, "duration", <<>>),
     achievements |-> Get(exp, "achievements", <<>>)]

FormatPosition(por) ==
    [organization |-> Get(por, "organization", <<>>),
     role         |-> Get(por, "role", <<>>),
     duration     |-> Get(por, "duration", <<>>),
     location     |-> Get(por, "location", <<>>),
     description  |-> Get(por, "description", <<>>)]

FormatCertification(cert) ==
    [name   |-> Get(cert, "name", <<>>),
     issuer |-> Get(cert, "issuer", <<>>),
     date   |-> Get(cert, "date", <<>>)]

FormatProject(proj) ==
    [name         |-> Get(proj, "name", <<>>),
     technologies |-> Get(proj, "technologies", <<>>),
     date         |-> Get(proj, "date", <<>>),
     achievements |-> Get(proj, "achievements", <<>>)]

\* truthiness of an Optional list or dict: present and not empty
TruthyOpt(o) == o # None /\ Val(o) # <<>>

RawProjectsAppended(st) ==
    LET extracted == Val(st.extracted_info)
    IN  (IF st.generated_projects # None THEN Val(st.generated_projects) ELSE <<>>)
        \o Get(extracted, "projects", <<>>)

\* state["generated_projects"] if state.get("generated_projects") else extracted.get("projects", [])
RawProjects(st) ==
    LET extracted == Val(st.extracted_info)
    IN  IF TruthyOpt(st.generated_projects)
        THEN Val(st.generated_projects)
        ELSE Get(extracted, "projects", <<>>)

MergedSkillsKeepsExtracted(st) ==
    LET extracted == Val(st.extracted_info)
    IN  IF Get(extracted, "technical_skills", <<>>) # <<>>
        THEN Get(extracted, "technical_skills", <<>>)
        ELSE IF st.generated_skills # None THEN Val(st.generated_skills) ELSE <<>>

\* state.get("generated_skills") or extracted.get("technical_skills", {})
MergedSkills(st) ==
    LET extracted == Val(st.extracted_info)
    IN  IF TruthyOpt(st.generated_skills)
        THEN Val(st.generated_skills)
        ELSE Get(extracted, "technical_skills", <<>>)

\* a list item of coding_stats is [isdict |-> TRUE, d |-> the dict] or
\* [isdict |-> FALSE, d |-> EmptyDict] for a value that is no dict
\* {item["platform"]: item["description"] for item in raw_coding if isinstance(item, dict)}
PlatformDict(list) ==
    LET dicts == SelectSeq(list, LAMBDA item : item.isdict)
        platforms == {dicts[i].d["platform"] : i \in 1..Len(dicts)}
        last(p) == CHOOSE i \in 1..Len(dicts) :
                       /\ dicts[i].d["platform"] = p
                       /\ \A j \in 1..Len(dicts) : dicts[j].d["platform"] = p => j <= i
    IN  [p \in platforms |-> dicts[last(p)].d["description"]]

NormalizeCodingStatsKeepsList(raw_coding) == raw_coding

\* the if / elif / else on the shape of extracted.get("coding_stats")
NormalizeCodingStats(raw_coding) ==
    IF raw_coding.kind = "list"
    THEN [kind |-> "dict", list |-> <<>>, dict |-> PlatformDict(raw_coding.list)]
    ELSE IF raw_coding.kind = "dict"
    THEN raw_coding
    ELSE NoCodingStats

\* item["platform"] or item["description"] raises KeyError on a dict without the key
CreateMetadataRaises(st) ==
    LET raw_coding == Get(Val(st.extracted_info), "coding_stats", NoCodingStats)
    IN  /\ raw_coding.kind = "list"
        /\ \E i \in 1..Len(raw_coding.list) :
               /\ raw_coding.list[i].isdict
               /\ ~({"platform", "description"} \subseteq DOMAIN raw_coding.list[i].d)

DefaultNameEmpty == <<>>

\* extracted.get("name", "John Doe")
DefaultName == <<"John Doe">>

\* extracted.get("email", "john@example.com")
DefaultEmail == <<"john@example.com">>

\* the ResumeMetadata that create_metadata builds
ResumeMetadataOf(st) ==
    LET extracted == Val(st.extracted_info)
        experiences == Get(extracted, "experiences", <<>>)
        positions == Get(extracted, "positions_of_responsibility", <<>>)
        certifications == Get(extracted, "certifications", <<>>)
        raw_projects == RawProjects(st)
    IN  [name        |-> Get(extracted, "name", DefaultName),
         email       |-> Get(extracted, "email", DefaultEmail),
         phone       |-> Get(extracted, "phone", None),
         github      |-> Get(extracted, "github", None),
         linkedin    |-> Get(extracted, "linkedin", None),
         experiences |-> [i \in 1..Len(experiences) |-> FormatExperience(experiences[i])],
         education   |-> Get(extracted, "education", <<>>),
         projects    |-> [i \in 1..Len(raw_projects) |-> FormatProject(raw_projects[i])],
         technical_skills |-> MergedSkills(st),
         soft_skills |-> Get(extracted, "soft_skills", <<>>),
         positions_of_responsibility |->
             [i \in 1..Len(positions) |-> FormatPosition(positions[i])],
         certifications |->
             [i \in 1..Len(certifications) |-> FormatCertification(certifications[i])],
         coding_stats |->
             NormalizeCodingStats(Get(extracted, "coding_stats", NoCodingStats))]

create_metadata(st) ==
    [st EXCEPT !.resume_metadata = Some(ResumeMetadataOf(st)),
               !.messages = << <<"Created resume metadata">> >>]

\* the node generate_latex: {**state, "latex_code": ..., "messages": [...]}
generate_latex_no_document(st) ==
    [st EXCEPT !.messages = << <<"Generated LaTeX code">> >>]

generate_latex(st) ==
    [st EXCEPT !.latex_code = Some(Chars(GenerateLatexDoc(Val(st.resume_metadata)))),
               !.messages = << <<"Generated LaTeX code">> >>]

-----------------------------------------------------------------------------
(* main.py: build_graph, and how the compiled graph runs it *)

END == "__end__"

Nodes ==
    <<"extract_info", "generate_projects", "generate_skills", "create_metadata",
      "generate_latex">>

NodeSet == {Nodes[i] : i \in DOMAIN Nodes}

\* set_entry_point
EntryPoint == "extract_info"

EdgesWithFanOut ==
    { <<"extract_info", "generate_projects">>,
      <<"extract_info", "generate_skills">>,
      <<"generate_projects", "create_metadata">>,
      <<"generate_skills", "create_metadata">>,
      <<"create_metadata", "generate_latex">>,
      <<"generate_latex", END>> }

\* the add_edge calls
Edges ==
    { <<"extract_info", "generate_projects">>,
      <<"generate_projects", "generate_skills">>,
      <<"generate_skills", "create_metadata">>,
      <<"create_metadata", "generate_latex">>,
      <<"generate_latex", END>> }

Successors(n) == {e[2] : e \in {x \in Edges : x[1] = n}}

\* the channels of AgentState: messages is Annotated[list, operator.add], so a
\* node's messages are appended; every other key takes the returned value
ApplyUpdate(st, update) ==
    [update EXCEPT !.messages = st.messages \o update.messages]

\* the nodes scheduled after node n raised: the exception leaves graph.invoke
\* and generate_resume's except clause answers, so none
AfterRaiseContinues(n) == Successors(n)

AfterRaise(n) == {}

\* str(e) of the exception node n raised
ErrorOf(n) == <<"error raised in", n>>

\* the nodes whose body calls the reasoning service
ServiceNodes == {"extract_info", "generate_projects", "generate_skills"}

\* node n can raise in state st
CanRaise(n, st) ==
    \/ n \in ServiceNodes
    \/ n = "create_metadata" /\ CreateMetadataRaises(st)
    \/ n = "generate_latex" /\ GenerateLatexRaises(Val(st.resume_metadata))

-----------------------------------------------------------------------------
(* Inputs of generate_latex: ResumeMetadata records (agentstate.py)        *)

ListSkills(items) == [kind |-> "list", items |-> items]

IntSkills == [kind |-> "int", items |-> <<>>]

SomeExperience ==
    [company |-> <<"a", "&">>, role |-> <<"#">>, duration |-> <<"~">>,
     achievements |-> << <<"^", "{">>, <<"a">> >>]

SomeEducation ==
    [institution |-> <<"_">>, degree |-> <<"a">>, duration |-> <<"}">>]

SomeProject ==
    [name |-> <<"\\", "&">>, technologies |-> << <<"a">>, <<"%">> >>,
     date |-> <<"a">>, achievements |-> << <<"{", "{", "NAME", "}", "}">> >>]

SomePosition ==
    [organization |-> <<"a">>, role |-> <<"%">>, duration |-> <<"a">>,
     location |-> <<>>, description |-> <<"{", "{", "EMAIL", "}", "}">>]

RenderNames == {<<"a">>, <<"%", "&">>, <<"{", "{", "POSITIONS", "}", "}">>}

RenderSkills ==
    { <<>>,
      << [category |-> <<"Tools">>, skills |-> ListSkills(<< <<"a", "_">>, <<"#">> >>)] >>,
      << [category |-> <<"Tools">>, skills |-> ListSkills(<<>>)] >>,
      << [category |-> <<"Tools">>, skills |-> IntSkills] >> }

RenderInputs ==
    { [name |-> n, email |-> <<"e">>, phone |-> ph, github |-> None, linkedin |-> li,
       experiences |-> ex, education |-> ed, projects |-> pr,
       technical_skills |-> ts, soft_skills |-> <<>>,
       positions_of_responsibility |-> po, certifications |-> <<>>,
       coding_stats |-> NoCodingStats] :
         n \in RenderNames,
         ph \in {None, Some(<<"9">>)},
         li \in {None, Some(<<"l", "_">>)},
         ex \in {<<>>, <<SomeExperience>>},
         ed \in {<<>>, <<SomeEducation>>},
         pr \in {<<>>, <<SomeProject>>},
         ts \in RenderSkills,
         po \in {<<>>, <<SomePosition>>} }

-----------------------------------------------------------------------------
(* Rendering specification: escape_latex and generate_latex as functions *)

\* the request and the assembly harness at rest
PipelineIdle ==
    /\ phase = "idle"
    /\ state = InitialState("", "")
    /\ frontier = {}
    /\ active = {}
    /\ started = <<>>
    /\ returned = <<>>
    /\ error = None
    /\ response = None

AssemblyIdle ==
    /\ asmIn = None
    /\ asmOut = None

LatexIdle ==
    /\ call = "none"
    /\ escIn = <<>>
    /\ escOut = <<>>
    /\ renderIn = None
    /\ renderOut = <<>>
    /\ renderIn2 = None
    /\ renderOut2 = <<>>

CompileIdle ==
    /\ cPhase = "idle"
    /\ entry = "none"
    /\ max_retries = 0
    /\ attempt = 0
    /\ svc = 1
    /\ errors = <<>>
    /\ outcomes = <<>>
    /\ chainResult = None
    /\ chainLog = <<>>
    /\ waits = <<>>
    /\ retryResult = None

\* no request has arrived
NoAnswers == [extracted |-> None, projects |-> None, skills |-> None]

IdleRequest ==
    [phase |-> "idle", input |-> "", state |-> InitialState("", ""), done |-> <<>>,
     got |-> NoAnswers, error |-> None, response |-> None]

Requests == 1..NumRequests

ConcurrentIdle == reqs = [r \in Requests |-> IdleRequest]

InitLatex ==
    /\ PipelineIdle
    /\ AssemblyIdle
    /\ LatexIdle
    /\ CompileIdle
    /\ ConcurrentIdle

\* escape_latex(text)
CallEscape ==
    /\ call = "none"
    /\ \E text \in Strings :
        /\ escIn' = text
        /\ escOut' = escape_latex(text)
    /\ call' = "escape_latex"
    /\ UNCHANGED <<renderIn, renderOut, renderIn2, renderOut2>>
    /\ UNCHANGED <<pipeVars, asmVars>>
    /\ UNCHANGED <<compVars, concVars>>

\* generate_latex(state) with state['resume_metadata'] = metadata
CallRender ==
    /\ call = "none"
    /\ \E metadata \in RenderInputs :
        /\ ~GenerateLatexRaises(metadata)
        /\ renderIn' = Some(metadata)
        /\ renderOut' = GenerateLatexDoc(metadata)
    /\ call' = "generate_latex"
    /\ UNCHANGED <<escIn, escOut, renderIn2, renderOut2>>
    /\ UNCHANGED <<pipeVars, asmVars>>
    /\ UNCHANGED <<compVars, concVars>>

\* generate_latex(state) raises: the record is stored, nothing is returned
CallRenderRaises ==
    /\ call = "none"
    /\ \E metadata \in RenderInputs :
        /\ GenerateLatexRaises(metadata)
        /\ renderIn' = Some(metadata)
    /\ call' = "generate_latex raised"
    /\ UNCHANGED <<escIn, escOut, renderOut, renderIn2, renderOut2>>
    /\ UNCHANGED <<pipeVars, asmVars>>
    /\ UNCHANGED <<compVars, concVars>>

\* values of the fields of ResumeMetadata that generate_latex does not read
UnrenderedFields ==
    { [github |-> None, soft_skills |-> <<>>, certifications |-> <<>>,
       coding_stats |-> NoCodingStats],
      [github |-> Some(<<"g", "_">>), soft_skills |-> <<>>, certifications |-> <<>>,
       coding_stats |-> NoCodingStats],
      [github |-> None, soft_skills |-> << <<"{", "{", "NAME", "}", "}">> >>,
       certifications |-> << [name |-> <<"a", "&">>, issuer |-> <<>>, date |-> <<>>] >>,
       coding_stats |-> NoCodingStats],
      [github |-> Some(<<"g", "_">>), soft_skills |-> << <<"a">> >>,
       certifications |-> << [name |-> <<"a", "&">>, issuer |-> <<>>, date |-> <<>>] >>,
       coding_stats |->
           [kind |-> "dict", list |-> <<>>, dict |-> [LeetCode |-> "500 problems"]]] }

\* metadata with its unrendered fields set to other
WithUnrendered(metadata, other) ==
    [metadata EXCEPT !.github = other.github,
                     !.soft_skills = other.soft_skills,
                     !.certifications = other.certifications,
                     !.coding_stats = other.coding_stats]

\* a second generate_latex call, with the record of the first call or with a
\* record that differs from it in fields generate_latex does not read
CallRenderAgain ==
    /\ call = "generate_latex"
    /\ renderIn2 = None
    /\ \E other \in UnrenderedFields :
        /\ renderIn2' = Some(WithUnrendered(Val(renderIn), other))
        /\ renderOut2' = GenerateLatexDoc(WithUnrendered(Val(renderIn), other))
    /\ UNCHANGED <<call, escIn, escOut, renderIn, renderOut>>
    /\ UNCHANGED <<pipeVars, asmVars>>
    /\ UNCHANGED <<compVars, concVars>>

NextLatex == CallEscape \/ CallRender \/ CallRenderRaises \/ CallRenderAgain

SpecLatex == InitLatex /\ [][NextLatex]_vars

-----------------------------------------------------------------------------
(* Values the reasoning service returns *)

OldProject ==
    [name |-> <<"old">>, technologies |-> << <<"a">> >>, date |-> <<"a">>,
     achievements |-> << <<"a">> >>]

NewProject(k) ==
    [name |-> <<"new", k>>, technologies |-> << <<"a">>, <<"%">> >>, date |-> <<"a">>,
     achievements |-> << <<"a">>, <<"&">> >>]

OldSkills == << [category |-> <<"Languages">>, skills |-> ListSkills(<< <<"a">> >>)] >>

NewSkills == << [category |-> <<"Tools">>, skills |-> ListSkills(<< <<"a", "_">> >>)] >>

\* {"Tools": 7}: TechnicalSkills.skills is a plain dict, its values are not typed
UniterableSkills == << [category |-> <<"Tools">>, skills |-> IntSkills] >>

CodingRecord(platform, description) ==
    [isdict |-> TRUE, d |-> [platform |-> platform, description |-> description]]

NotADict == [isdict |-> FALSE, d |-> EmptyDict]

CodingList(list) == [kind |-> "list", list |-> list, dict |-> EmptyDict]

\* ExtractedResumeInfo.model_dump(): every key of the schema is present
ExtractedInfo(projects, technical_skills, coding_stats) ==
    [name |-> <<"a">>, email |-> <<"e">>, phone |-> None, github |-> None,
     linkedin |-> None, experiences |-> <<SomeExperience>>, education |-> <<>>,
     projects |-> projects, technical_skills |-> technical_skills,
     soft_skills |-> <<>>, positions_of_responsibility |-> <<SomePosition>>,
     certifications |-> <<>>, coding_stats |-> coding_stats]

\* what extractor_llm.invoke can return: coding_stats is Optional[List[CodingStats]]
ServiceExtractions ==
    { ExtractedInfo(pr, ts, cs) :
        pr \in {<<>>, <<OldProject>>},
        ts \in {<<>>, OldSkills},
        cs \in {NoCodingStats, CodingList(<<CodingRecord("LeetCode", "500 problems")>>)} }

\* what project_llm.invoke can return: List[Project] of any length
ServiceProjects ==
    { <<>>, <<NewProject("1")>>, <<NewProject("1"), NewProject("2"), NewProject("3")>> }

\* what skills_llm.invoke can return
ServiceSkills == { <<>>, NewSkills, UniterableSkills }

-----------------------------------------------------------------------------
(* One generate_resume request *)

Init ==
    /\ PipelineIdle
    /\ AssemblyIdle
    /\ LatexIdle
    /\ CompileIdle
    /\ ConcurrentIdle

\* generate_resume up to graph.invoke(initial_state)
ReceiveRequest ==
    /\ phase = "idle"
    /\ \E resume_text \in {"resume A", "resume B"} :
           state' = InitialState(resume_text, "job")
    /\ frontier' = {EntryPoint}
    /\ phase' = "running"
    /\ UNCHANGED <<active, started, returned, error, response>>
    /\ UNCHANGED <<asmVars, latexVars>>
    /\ UNCHANGED <<compVars, concVars>>

\* the graph calls node n
NodeEnter ==
    /\ \E n \in frontier \ ({END} \cup active) :
        /\ active' = active \cup {n}
        /\ started' = Append(started, n)
    /\ UNCHANGED <<phase, state, frontier, returned, error, response>>
    /\ UNCHANGED <<asmVars, latexVars>>
    /\ UNCHANGED <<compVars, concVars>>

\* node n returned update: its writes are applied and its successors scheduled
Returned(n, update) ==
    /\ state' = ApplyUpdate(state, update)
    /\ active' = active \ {n}
    /\ frontier' = (frontier \ {n}) \cup Successors(n)
    /\ returned' = Append(returned, n)
    /\ UNCHANGED <<phase, started, error, response>>
    /\ UNCHANGED <<asmVars, latexVars>>
    /\ UNCHANGED <<compVars, concVars>>

ExtractReturn ==
    /\ "extract_info" \in active
    /\ \E extracted \in ServiceExtractions :
           Returned("extract_info", extract_resume_info(state, extracted))

ProjectsReturn ==
    /\ "generate_projects" \in active
    /\ \E projects \in ServiceProjects :
           Returned("generate_projects", generate_projects(state, projects))

SkillsReturn ==
    /\ "generate_skills" \in active
    /\ \E skills \in ServiceSkills :
           Returned("generate_skills", generate_skills(state, skills))

MetadataReturn ==
    /\ "create_metadata" \in active
    /\ ~CreateMetadataRaises(state)
    /\ Returned("create_metadata", create_metadata(state))

LatexReturn ==
    /\ "generate_latex" \in active
    /\ ~GenerateLatexRaises(Val(state.resume_metadata))
    /\ Returned("generate_latex", generate_latex(state))

\* node n raises: the exception leaves graph.invoke
NodeRaise ==
    /\ \E n \in active :
        /\ CanRaise(n, state)
        /\ active' = active \ {n}
        /\ frontier' = AfterRaise(n)
        /\ error' = Some(ErrorOf(n))
    /\ UNCHANGED <<phase, state, started, returned, response>>
    /\ UNCHANGED <<asmVars, latexVars>>
    /\ UNCHANGED <<compVars, concVars>>

\* graph.invoke returned final_state: the success response
RespondSuccess ==
    /\ phase = "running"
    /\ error = None
    /\ frontier = {END}
    /\ active = {}
    /\ response' =
          IF state.resume_metadata = None
          THEN Some([success |-> FALSE, metadata |-> None, latex_code |-> None,
                     error |-> Some(<<"error raised in", "generate_resume">>)])
          ELSE Some([success |-> TRUE, metadata |-> state.resume_metadata,
                     latex_code |-> state.latex_code, error |-> None])
    /\ phase' = "responded"
    /\ UNCHANGED <<state, frontier, active, started, returned, error>>
    /\ UNCHANGED <<asmVars, latexVars>>
    /\ UNCHANGED <<compVars, concVars>>

\* except Exception as e: the failure response
RespondFailure ==
    /\ phase = "running"
    /\ error # None
    /\ active = {}
    /\ response' = Some([success |-> FALSE, metadata |-> None, latex_code |-> None,
                         error |-> error])
    /\ phase' = "responded"
    /\ UNCHANGED <<state, frontier, active, started, returned, error>>
    /\ UNCHANGED <<asmVars, latexVars>>
    /\ UNCHANGED <<compVars, concVars>>

Next ==
    \/ ReceiveRequest
    \/ NodeEnter
    \/ ExtractReturn
    \/ ProjectsReturn
    \/ SkillsReturn
    \/ MetadataReturn
    \/ LatexReturn
    \/ NodeRaise
    \/ RespondSuccess
    \/ RespondFailure

Spec == Init /\ [][Next]_vars

-----------------------------------------------------------------------------
(* Assembly specification: create_metadata as a function of any AgentState *)

\* extracted_info is typed Optional[dict]: coding_stats of every shape
AssemblyCodingStats ==
    { NoCodingStats,
      CodingList(<<>>),
      CodingList(<<CodingRecord("LeetCode", "500 problems")>>),
      CodingList(<<CodingRecord("LeetCode", "500 problems"), NotADict,
                   CodingRecord("Codeforces", "expert")>>),
      CodingList(<<CodingRecord("LeetCode", "500 problems"),
                   CodingRecord("LeetCode", "600 problems")>>),
      [kind |-> "dict", list |-> <<>>, dict |-> [LeetCode |-> "500 problems"]],
      [kind |-> "other", list |-> <<>>, dict |-> EmptyDict] }

\* {"platform": "LeetCode"}: a dict of the list without its description
MalformedCodingList ==
    CodingList(<<[isdict |-> TRUE, d |-> [platform |-> "LeetCode"]]>>)

\* the dict d without the keys in missing
Without(d, missing) == [k \in DOMAIN d \ missing |-> d[k]]

ExtractedKeys ==
    {"name", "email", "phone", "github", "linkedin", "experiences", "education",
     "projects", "technical_skills", "soft_skills", "positions_of_responsibility",
     "certifications", "coding_stats"}

\* the keys a record can lack: one key, the eight required ones, or all
MissingKeys ==
    { {k} : k \in ExtractedKeys } \cup
    { {"name", "email", "experiences", "education", "projects", "soft_skills",
       "positions_of_responsibility", "certifications"},
      ExtractedKeys }

\* extracted_info is a plain dict: records that lack keys of the schema
PartialInputs ==
    { [InitialState("resume A", "job") EXCEPT
          !.extracted_info =
              Some(Without(ExtractedInfo(<<OldProject>>, OldSkills, cs), missing)),
          !.generated_projects = gp] :
        missing \in MissingKeys,
        cs \in {NoCodingStats, MalformedCodingList},
        gp \in {None, Some(<<NewProject("1")>>)} }

FullInputs ==
    { [InitialState("resume A", "job") EXCEPT
          !.extracted_info = Some(ExtractedInfo(pr, ts, cs)),
          !.generated_projects = gp,
          !.generated_skills = gs] :
        pr \in {<<>>, <<OldProject>>},
        ts \in {<<>>, OldSkills},
        cs \in AssemblyCodingStats,
        gp \in {None} \cup {Some(x) : x \in ServiceProjects},
        gs \in {None, Some(<<>>), Some(NewSkills)} }

AssemblyInputs == FullInputs \cup PartialInputs

InitAssembly ==
    /\ PipelineIdle
    /\ AssemblyIdle
    /\ LatexIdle
    /\ CompileIdle
    /\ ConcurrentIdle

\* create_metadata(st)
CallCreateMetadata ==
    /\ asmIn = None
    /\ \E st \in AssemblyInputs :
        /\ ~CreateMetadataRaises(st)
        /\ asmIn' = Some(st)
        /\ asmOut' = create_metadata(st).resume_metadata
    /\ UNCHANGED <<pipeVars, latexVars>>
    /\ UNCHANGED <<compVars, concVars>>

\* create_metadata(st) raises: the state is stored, nothing is returned
CallCreateMetadataRaises ==
    /\ asmIn = None
    /\ \E st \in AssemblyInputs :
        /\ CreateMetadataRaises(st)
        /\ asmIn' = Some(st)
    /\ UNCHANGED asmOut
    /\ UNCHANGED <<pipeVars, latexVars>>
    /\ UNCHANGED <<compVars, concVars>>

NextAssembly == CallCreateMetadata \/ CallCreateMetadataRaises

SpecAssembly == InitAssembly /\ [][NextAssembly]_vars

-----------------------------------------------------------------------------
(* online_compiler.py: text and byte strings with their lengths            *)
(* A piece [c |-> s, n |-> k] is the first k characters of the string s;  *)
(* a text is a sequence of pieces.                                         *)

Piece(s, k) == [c |-> s, n |-> k]

RECURSIVE Length(_)
Length(text) ==
    IF text = <<>> THEN 0 ELSE Head(text).n + Length(Tail(text))

\* text[:k]
RECURSIVE Take(_, _)
Take(text, k) ==
    IF k <= 0 \/ text = <<>> THEN <<>>
    ELSE IF Head(text).n <= k
         THEN <<Head(text)>> \o Take(Tail(text), k - Head(text).n)
         ELSE <<Piece(Head(text).c, k)>>

\* sep.join(texts)
RECURSIVE JoinTexts(_, _)
JoinTexts(sep, texts) ==
    IF texts = <<>> THEN <<>>
    ELSE IF Len(texts) = 1 THEN texts[1]
    ELSE texts[1] \o sep \o JoinTexts(sep, Tail(texts))

\* the four bytes a PDF starts with
PdfMagic == <<Piece("%PDF", 4)>>

\* the slices of the two backends and of the chain's handler
MagicLen == 4

NonPdfTextLimit == 200

JsonHttpTextLimit == 300

GetHttpTextLimit == 200

ExceptionTextLimit == 100

\* the tuple (success, pdf_bytes, error) the functions return
Result(success, pdf_bytes, error_message) ==
    [success |-> success, pdf_bytes |-> pdf_bytes, error |-> error_message]

Failure(error_message) == Result(FALSE, None, error_message)

-----------------------------------------------------------------------------
(* online_compiler.py: what a backend can meet *)

\* what requests.post / requests.get did, or "raises" for an exception that
\* leaves the backend function
Outcome(kind, status_code, content, message) ==
    [kind |-> kind, status_code |-> status_code, content |-> content,
     message |-> message]

PdfBody == <<Piece("%PDF", 4), Piece("-1.4 document", 13)>>

TruncatedMagic == <<Piece("%PDF", 3)>>

LongLog == <<Piece("! LaTeX Error", 350)>>

Bodies == { PdfBody, TruncatedMagic, <<>>, LongLog }

ShortMessage == <<Piece("connection refused", 18)>>

LongMessage == <<Piece("Max retries exceeded with url", 120)>>

Responses ==
    { Outcome("response", sc, body, <<>>) : sc \in {200, 201, 500}, body \in Bodies }

BackendOutcomes ==
    Responses \cup
    { Outcome("Timeout", 0, <<>>, ShortMessage),
      Outcome("RequestException", 0, <<>>, LongMessage),
      Outcome("Exception", 0, <<>>, ShortMessage),
      Outcome("raises", 0, <<>>, ShortMessage),
      Outcome("raises", 0, <<>>, LongMessage) }

\* response.text of a response with this content
ResponseText(outcome) == outcome.content

StatusText(status_code) == <<Piece(ToString(status_code), 3)>>

-----------------------------------------------------------------------------
(* online_compiler.py: the two backends *)

_compile_with_ytotech_json(outcome) ==
    IF outcome.kind = "response"
    THEN IF outcome.status_code \in {200, 201}
         THEN IF Take(outcome.content, MagicLen) = PdfMagic
              THEN Result(TRUE, Some(outcome.content), <<>>)
              ELSE Failure(<<Piece("Got non-PDF response: ", 22)>> \o
                           (IF ResponseText(outcome) # <<>>
                            THEN Take(ResponseText(outcome), NonPdfTextLimit)
                            ELSE <<Piece("Invalid response format", 23)>>))
         ELSE Failure(<<Piece("HTTP ", 5)>> \o StatusText(outcome.status_code) \o
                      <<Piece(": ", 2)>> \o
                      (IF ResponseText(outcome) # <<>>
                       THEN Take(ResponseText(outcome), JsonHttpTextLimit)
                       ELSE <<Piece("Unknown error", 13)>>))
    ELSE IF outcome.kind = "Timeout"
    THEN Failure(<<Piece("Request timeout (>45s)", 22)>>)
    ELSE IF outcome.kind = "RequestException"
    THEN Failure(<<Piece("Network error: ", 15)>> \o
                 Take(outcome.message, ExceptionTextLimit))
    ELSE Failure(<<Piece("Error: ", 7)>> \o Take(outcome.message, ExceptionTextLimit))

_compile_with_ytotech_get_any_body(outcome) ==
    IF outcome.kind = "response" /\ outcome.status_code \in {200, 201}
    THEN Result(TRUE, Some(outcome.content), <<>>)
    ELSE Failure(<<Piece("Error: ", 7)>> \o Take(outcome.message, ExceptionTextLimit))

_compile_with_ytotech_get(outcome) ==
    IF outcome.kind = "response"
    THEN IF outcome.status_code \in {200, 201}
         THEN IF Take(outcome.content, MagicLen) = PdfMagic
              THEN Result(TRUE, Some(outcome.content), <<>>)
              ELSE Failure(<<Piece("Got non-PDF response", 20)>>)
         ELSE Failure(<<Piece("HTTP ", 5)>> \o StatusText(outcome.status_code) \o
                      <<Piece(": ", 2)>> \o
                      (IF ResponseText(outcome) # <<>>
                       THEN Take(ResponseText(outcome), GetHttpTextLimit)
                       ELSE <<Piece("Unknown error", 13)>>))
    ELSE Failure(<<Piece("Error: ", 7)>> \o Take(outcome.message, ExceptionTextLimit))

-----------------------------------------------------------------------------
(* online_compiler.py: compile_latex_online *)

ServiceNames ==
    <<<<Piece("YtoTech JSON POST", 17)>>, <<Piece("YtoTech GET", 11)>>>>

\* services[i][1], applied to what the backend met
service_func(i, outcome) ==
    IF i = 1 THEN _compile_with_ytotech_json(outcome)
    ELSE _compile_with_ytotech_get(outcome)

services == 1..Len(ServiceNames)

\* the entry the loop body appends to errors when backend i fails
ErrorEntry(i, outcome) ==
    ServiceNames[i] \o <<Piece(": ", 2)>> \o
    (IF outcome.kind = "raises"
     THEN Take(outcome.message, ExceptionTextLimit)
     ELSE service_func(i, outcome).error)

ErrorDelimiter == <<Piece("; ", 2)>>

AllFailedLastOnly(errs) ==
    Failure(<<Piece("All compilation services failed: ", 33)>> \o errs[Len(errs)])

\* the return after the loop
AllFailed(errs) ==
    Failure(<<Piece("All compilation services failed: ", 33)>> \o
            JoinTexts(ErrorDelimiter, errs))

NextServiceEndsLoop(i) == Len(ServiceNames) + 1

\* the service after a failed one; Len(ServiceNames) + 1 ends the loop
NextService(i) == i + 1

-----------------------------------------------------------------------------
(* online_compiler.py: compile_latex_with_retry *)

wait_time(k) == 2 * (k + 1)

RetryFailed(n, error_message) ==
    Failure(<<Piece("Compilation failed after ", 25), Piece(ToString(n), 1),
              Piece(" attempts: ", 11)>> \o error_message)

RetriesAgainAfterLast(k, n) == k < n

\* whether the wrapper tries again after failed attempt k
RetriesAgain(k, n) == k < n - 1

-----------------------------------------------------------------------------
(* One compilation: compile_latex_online called directly (main.py          *)
(* compile_latex) or through compile_latex_with_retry                      *)

\* the largest max_retries that is enumerated
MaxRetries == 3

EnterChain ==
    /\ svc' = 1
    /\ errors' = <<>>
    /\ outcomes' = <<>>

\* compile_latex_online(latex_code, timeout=45)
CallCompileOnline ==
    /\ cPhase = "idle"
    /\ entry' = "compile_latex_online"
    /\ cPhase' = "chain"
    /\ EnterChain
    /\ UNCHANGED <<max_retries, attempt, chainResult, chainLog, waits, retryResult>>
    /\ UNCHANGED <<pipeVars, asmVars, latexVars, concVars>>

\* compile_latex_with_retry(latex_code, max_retries=n) up to its first chain
\* run; with n = 0 the loop body never runs and the return reads the unbound
\* local error
CallCompileWithRetry ==
    /\ cPhase = "idle"
    /\ entry' = "compile_latex_with_retry"
    /\ \E n \in 0..MaxRetries :
        /\ max_retries' = n
        /\ cPhase' = IF n = 0 THEN "raised" ELSE "chain"
    /\ EnterChain
    /\ UNCHANGED <<attempt, chainResult, chainLog, waits, retryResult>>
    /\ UNCHANGED <<pipeVars, asmVars, latexVars, concVars>>

\* one iteration of the loop over services, including the return that ends
\* the chain
TryService ==
    /\ cPhase = "chain"
    /\ svc \in services
    /\ \E outcome \in BackendOutcomes :
        /\ outcomes' = Append(outcomes, [service |-> svc, met |-> outcome])
        /\ IF outcome.kind # "raises" /\ service_func(svc, outcome).success
           THEN /\ chainResult' =
                       Some(Result(TRUE, service_func(svc, outcome).pdf_bytes, <<>>))
                /\ chainLog' = Append(chainLog, TRUE)
                /\ cPhase' = "returned"
                /\ UNCHANGED <<svc, errors>>
           ELSE /\ errors' = Append(errors, ErrorEntry(svc, outcome))
                /\ svc' = NextService(svc)
                /\ IF NextService(svc) \in services
                   THEN UNCHANGED <<cPhase, chainResult, chainLog>>
                   ELSE /\ chainResult' = Some(AllFailed(errors'))
                        /\ chainLog' = Append(chainLog, FALSE)
                        /\ cPhase' = "returned"
    /\ UNCHANGED <<entry, max_retries, attempt, waits, retryResult>>
    /\ UNCHANGED <<pipeVars, asmVars, latexVars, concVars>>

\* the direct caller has its tuple
OnlineDone ==
    /\ cPhase = "returned"
    /\ entry = "compile_latex_online"
    /\ cPhase' = "done"
    /\ UNCHANGED <<entry, max_retries, attempt, svc, errors, outcomes,
                   chainResult, chainLog, waits, retryResult>>
    /\ UNCHANGED <<pipeVars, asmVars, latexVars, concVars>>

\* the loop body of compile_latex_with_retry after the chain returned
AfterChain ==
    /\ cPhase = "returned"
    /\ entry = "compile_latex_with_retry"
    /\ IF Val(chainResult).success
       THEN /\ retryResult' = Some(Result(TRUE, Val(chainResult).pdf_bytes, <<>>))
            /\ cPhase' = "done"
            /\ UNCHANGED waits
       ELSE IF RetriesAgain(attempt, max_retries)
       THEN /\ waits' = Append(waits, wait_time(attempt))
            /\ cPhase' = "sleeping"
            /\ UNCHANGED retryResult
       ELSE /\ retryResult' = Some(RetryFailed(max_retries, Val(chainResult).error))
            /\ cPhase' = "done"
            /\ UNCHANGED waits
    /\ UNCHANGED <<entry, max_retries, attempt, svc, errors, outcomes,
                   chainResult, chainLog>>
    /\ UNCHANGED <<pipeVars, asmVars, latexVars, concVars>>

\* time.sleep returns and the next iteration calls the chain again
Wake ==
    /\ cPhase = "sleeping"
    /\ attempt' = attempt + 1
    /\ cPhase' = "chain"
    /\ EnterChain
    /\ UNCHANGED <<entry, max_retries, chainResult, chainLog, waits, retryResult>>
    /\ UNCHANGED <<pipeVars, asmVars, latexVars, concVars>>

NextCompile ==
    \/ CallCompileOnline
    \/ CallCompileWithRetry
    \/ TryService
    \/ OnlineDone
    \/ AfterChain
    \/ Wake

SpecCompile == Init /\ [][NextCompile]_vars

-----------------------------------------------------------------------------
(* Several generate_resume requests at the same time: every request has    *)
(* its own initial_state and its own graph.invoke on the shared compiled   *)
(* graph; the steps of different requests interleave freely                *)

\* the resume each request uploads: neighbours upload different ones
ResumeTexts == <<"resume A", "resume B", "resume C">>

ResumeOf(r) == ResumeTexts[((r - 1) % Len(ResumeTexts)) + 1]

\* what the reasoning service can answer in these runs
ConcExtractions == { ExtractedInfo(<<OldProject>>, OldSkills, NoCodingStats) }

ConcProjects == { <<>>, <<NewProject("1"), NewProject("2"), NewProject("3")>> }

ConcSkills == { NewSkills, UniterableSkills }

StageInputShared(rs, r) == rs[1].state

\* the state graph.invoke hands to the next node of request r
StageInput(rs, r) == rs[r].state

\* the node request r runs next
NextNode(r) == Nodes[Len(reqs[r].done) + 1]

AtNode(r, n) ==
    /\ reqs[r].phase = "running"
    /\ Len(reqs[r].done) < Len(Nodes)
    /\ NextNode(r) = n

\* generate_resume of request r up to graph.invoke(initial_state)
ConcReceive(r) ==
    /\ reqs[r].phase = "idle"
    /\ reqs' = [reqs EXCEPT ![r] =
                    [IdleRequest EXCEPT
                         !.phase = "running",
                         !.input = ResumeOf(r),
                         !.state = InitialState(ResumeOf(r), "job")]]
    /\ UNCHANGED <<pipeVars, asmVars, latexVars, compVars>>

\* node n of request r returned update after the service answered answers
ConcReturned(r, n, update, answers) ==
    /\ reqs' = [reqs EXCEPT ![r].state = ApplyUpdate(StageInput(reqs, r), update),
                            ![r].done = Append(@, n),
                            ![r].got = answers]
    /\ UNCHANGED <<pipeVars, asmVars, latexVars, compVars>>

ConcExtract(r) ==
    /\ AtNode(r, "extract_info")
    /\ \E extracted \in ConcExtractions :
           ConcReturned(r, "extract_info",
                        extract_resume_info(StageInput(reqs, r), extracted),
                        [reqs[r].got EXCEPT !.extracted = Some(extracted)])

ConcProjectsStage(r) ==
    /\ AtNode(r, "generate_projects")
    /\ \E projects \in ConcProjects :
           ConcReturned(r, "generate_projects",
                        generate_projects(StageInput(reqs, r), projects),
                        [reqs[r].got EXCEPT !.projects = Some(projects)])

ConcSkillsStage(r) ==
    /\ AtNode(r, "generate_skills")
    /\ \E skills \in ConcSkills :
           ConcReturned(r, "generate_skills",
                        generate_skills(StageInput(reqs, r), skills),
                        [reqs[r].got EXCEPT !.skills = Some(skills)])

ConcMetadata(r) ==
    /\ AtNode(r, "create_metadata")
    /\ ~CreateMetadataRaises(StageInput(reqs, r))
    /\ ConcReturned(r, "create_metadata", create_metadata(StageInput(reqs, r)),
                    reqs[r].got)

ConcLatex(r) ==
    /\ AtNode(r, "generate_latex")
    /\ ~GenerateLatexRaises(Val(StageInput(reqs, r).resume_metadata))
    /\ ConcReturned(r, "generate_latex", generate_latex(StageInput(reqs, r)),
                    reqs[r].got)

\* the next node of request r raises: the exception leaves its graph.invoke
ConcRaise(r) ==
    /\ reqs[r].phase = "running"
    /\ Len(reqs[r].done) < Len(Nodes)
    /\ CanRaise(NextNode(r), StageInput(reqs, r))
    /\ reqs' = [reqs EXCEPT ![r].phase = "failed",
                            ![r].error = Some(ErrorOf(NextNode(r)))]
    /\ UNCHANGED <<pipeVars, asmVars, latexVars, compVars>>

\* generate_resume of request r after graph.invoke: the success response, or
\* the failure response of the except clause
ConcRespond(r) ==
    /\ \/ reqs[r].phase = "failed"
       \/ reqs[r].phase = "running" /\ Len(reqs[r].done) = Len(Nodes)
    /\ reqs' = [reqs EXCEPT
                   ![r].phase = "responded",
                   ![r].response =
                       IF reqs[r].phase = "failed"
                       THEN Some([success |-> FALSE, metadata |-> None,
                                  latex_code |-> None, error |-> reqs[r].error])
                       ELSE Some([success |-> TRUE,
                                  metadata |-> reqs[r].state.resume_metadata,
                                  latex_code |-> reqs[r].state.latex_code,
                                  error |-> None])]
    /\ UNCHANGED <<pipeVars, asmVars, latexVars, compVars>>

NextConcurrent ==
    \E r \in Requests :
        \/ ConcReceive(r)
        \/ ConcExtract(r)
        \/ ConcProjectsStage(r)
        \/ ConcSkillsStage(r)
        \/ ConcMetadata(r)
        \/ ConcLatex(r)
        \/ ConcRaise(r)
        \/ ConcRespond(r)

SpecConcurrent == Init /\ [][NextConcurrent]_vars

-----------------------------------------------------------------------------
(* Claims about the pipeline (Spec) *)

IsPrefix(a, b) == Len(a) <= Len(b) /\ SubSeq(b, 1, Len(a)) = a

\* C1: the stages run in the order extract_info, generate_projects,
\* generate_skills, create_metadata, generate_latex, then the terminal state:
\* the stages entered so far are a prefix of that chain (none twice, none
\* skipped, none out of order), a stage is entered only once every stage
\* before it has returned, at most one stage is active, and the terminal
\* state is reached only after all five returned.
C1_StagesInOrder ==
    /\ Cardinality(active) <= 1
    /\ IsPrefix(started, Nodes)
    /\ IsPrefix(returned, started)
    /\ Len(started) <= Len(returned) + 1
    /\ \A n \in active :
           /\ started # <<>>
           /\ n = started[Len(started)]
           /\ Len(returned) = Len(started) - 1
    /\ END \in frontier => returned = Nodes
    /\ (phase = "responded" /\ Val(response).success) => returned = Nodes

C1_Witness ==
    /\ phase = "responded"
    /\ Val(response).success
    /\ started = Nodes
    /\ returned = Nodes

\* C2: when a stage fails the run stops there: the failing stage is the last
\* stage ever entered, every stage before it returned, nothing is scheduled
\* or active afterwards, and the response carries that stage's error.
C2_StopsAtFirstFailure ==
    error # None =>
        /\ started # <<>>
        /\ error = Some(ErrorOf(started[Len(started)]))
        /\ returned = SubSeq(started, 1, Len(started) - 1)
        /\ active = {}
        /\ frontier \cap NodeSet = {}
        /\ phase = "responded" =>
               /\ ~Val(response).success
               /\ Val(response).error = error

C2_Witness ==
    /\ phase = "responded"
    /\ error = Some(ErrorOf("generate_skills"))
    /\ started = <<"extract_info", "generate_projects", "generate_skills">>
    /\ ~Val(response).success

StateFields ==
    {"resume_text", "job_description", "extracted_info", "generated_projects",
     "generated_skills", "resume_metadata", "latex_code", "messages"}

ComputedFields ==
    {"extracted_info", "generated_projects", "generated_skills", "resume_metadata",
     "latex_code"}

OwnField(n) ==
    CASE n = "extract_info"      -> "extracted_info"
      [] n = "generate_projects" -> "generated_projects"
      [] n = "generate_skills"   -> "generated_skills"
      [] n = "create_metadata"   -> "resume_metadata"
      [] n = "generate_latex"    -> "latex_code"

\* C3: a stage that returns changes only its own field, which it populates,
\* and appends its one message; every other field keeps its value, and no
\* populated field ever goes back to None.
C3_StateAdditive ==
    [][ /\ \A n \in NodeSet :
               (n \in active /\ n \notin active' /\ error' = error) =>
                   /\ \A f \in StateFields \ {OwnField(n), "messages"} :
                          state'[f] = state[f]
                   /\ state'[OwnField(n)] # None
                   /\ Len(state'.messages) = Len(state.messages) + 1
                   /\ SubSeq(state'.messages, 1, Len(state.messages)) = state.messages
        /\ \A f \in ComputedFields : state[f] # None => state'[f] # None
      ]_vars

C3_Witness ==
    /\ returned = Nodes
    /\ \A f \in ComputedFields : state[f] # None
    /\ Len(state.messages) = Len(Nodes)
    /\ state.resume_text = "resume B"

-----------------------------------------------------------------------------
(* Claims about create_metadata (SpecAssembly) *)

\* C4: with a non-empty generated_projects the assembled projects are the
\* generated projects exactly; with generated_projects None or empty they are
\* the extracted projects.
C4_ProjectsPrecedence ==
    asmOut # None =>
        LET st == Val(asmIn)
            extracted == Val(st.extracted_info)
        IN  IF st.generated_projects # None /\ Val(st.generated_projects) # <<>>
            THEN Val(asmOut).projects = Val(st.generated_projects)
            ELSE Val(asmOut).projects = Get(extracted, "projects", <<>>)

C4_Witness ==
    /\ asmOut # None
    /\ Val(asmIn).generated_projects # None
    /\ Len(Val(Val(asmIn).generated_projects)) = Len(<<"a", "b", "c">>)
    /\ Get(Val(Val(asmIn).extracted_info), "projects", <<>>) = <<OldProject>>
    /\ Val(asmOut).projects = Val(Val(asmIn).generated_projects)

\* C5 as stated: whenever generated_skills is not None the assembled
\* technical_skills are generated_skills; only when it is None are they the
\* extracted technical_skills.
C5_SkillsPrecedenceWhenNotNone ==
    asmOut # None =>
        LET st == Val(asmIn)
            extracted == Val(st.extracted_info)
        IN  IF st.generated_skills # None
            THEN Val(asmOut).technical_skills = Val(st.generated_skills)
            ELSE Val(asmOut).technical_skills =
                     Get(extracted, "technical_skills", <<>>)

\* C5 (amended): whenever generated_skills is present and not empty the
\* assembled technical_skills are generated_skills outright; when it is None
\* or an empty dict they are the extracted technical_skills.
C5_SkillsPrecedence ==
    asmOut # None =>
        LET st == Val(asmIn)
            extracted == Val(st.extracted_info)
        IN  IF st.generated_skills # None /\ Val(st.generated_skills) # <<>>
            THEN Val(asmOut).technical_skills = Val(st.generated_skills)
            ELSE Val(asmOut).technical_skills =
                     Get(extracted, "technical_skills", <<>>)

C5_Witness ==
    /\ asmOut # None
    /\ Val(asmIn).generated_skills = Some(NewSkills)
    /\ Get(Val(Val(asmIn).extracted_info), "technical_skills", <<>>) = OldSkills
    /\ Val(asmOut).technical_skills = NewSkills

\* C6: the assembled coding_stats is a mapping or absent, never a list: a
\* list of {platform, description} records becomes the mapping platform ->
\* description, a mapping is kept, every other shape becomes absent.
C6_CodingStatsNormalized ==
    asmOut # None =>
        LET raw == Get(Val(Val(asmIn).extracted_info), "coding_stats", NoCodingStats)
            cs == Val(asmOut).coding_stats
            records == {x \in {raw.list[i] : i \in 1..Len(raw.list)} : x.isdict}
        IN  /\ cs.kind \in {"dict", "none"}
            /\ cs.list = <<>>
            /\ raw.kind = "list" =>
                   /\ cs.kind = "dict"
                   /\ DOMAIN cs.dict = {r.d.platform : r \in records}
                   /\ \A p \in DOMAIN cs.dict :
                          \E r \in records :
                              r.d.platform = p /\ r.d.description = cs.dict[p]
            /\ raw.kind = "dict" => cs = raw
            /\ raw.kind \notin {"list", "dict"} => cs = NoCodingStats
            /\ raw = CodingList(<<CodingRecord("LeetCode", "500 problems")>>) =>
                   cs.dict = [LeetCode |-> "500 problems"]

C6_Witness ==
    /\ asmOut # None
    /\ Get(Val(Val(asmIn).extracted_info), "coding_stats", NoCodingStats) =
           CodingList(<<CodingRecord("LeetCode", "500 problems")>>)
    /\ Val(asmOut).coding_stats.kind = "dict"
    /\ Val(asmOut).coding_stats.dict = [LeetCode |-> "500 problems"]

-----------------------------------------------------------------------------
(* Claims about escape_latex and generate_latex (SpecLatex) *)

\* characters whose escaped form is a backslash followed by the character
BackslashEscaped == {"%", "#", "_", "{", "}", "&"}

\* control words whose token ends with an empty group
GroupedWords == {"textbackslash", "textasciitilde", "textasciicircum"}

\* s reads, left to right, as plain atoms and escape tokens only: a special
\* character occurs in s only as part of a token
RECURSIVE OnlyEscapeTokens(_)
OnlyEscapeTokens(s) ==
    IF s = <<>> THEN TRUE
    ELSE IF Head(s) = "\\"
    THEN /\ Len(s) >= 2
         /\ \/ s[2] \in BackslashEscaped /\ OnlyEscapeTokens(SubSeq(s, 3, Len(s)))
            \/ /\ s[2] \in GroupedWords
               /\ IF Len(s) >= 4 /\ s[3] = "{" /\ s[4] = "}"
                  THEN OnlyEscapeTokens(SubSeq(s, 5, Len(s)))
                  ELSE s[2] = "textbackslash" /\ OnlyEscapeTokens(SubSeq(s, 3, Len(s)))
    ELSE Head(s) \notin SpecialChars /\ OnlyEscapeTokens(Tail(s))

EscapedForm(c) ==
    IF c = "&" THEN <<"\\", "&">>
    ELSE IF \E i \in DOMAIN replacements : replacements[i][1] = c
    THEN replacements[CHOOSE i \in DOMAIN replacements : replacements[i][1] = c][2]
    ELSE <<c>>

\* C8: no rule of escape_latex rewrites a token an earlier rule inserted, so
\* the output is the input with each character replaced, independently, by
\* its own escaped form (a backslash comes out as \textbackslash{}).
C8_EscapeIsPerCharacter ==
    call = "escape_latex" =>
        escOut = Concat([i \in 1..Len(escIn) |-> EscapedForm(escIn[i])])

\* C9: with a pre-escaped ampersand (backslash, &) in the input, ampersand
\* escaping is skipped: no & of the output has an escaping backslash put in
\* front of it; without one, every & of the output follows a backslash.
C9_AmpersandRule ==
    call = "escape_latex" =>
        IF Contains(escIn, <<"\\", "&">>)
        THEN ~Contains(escOut, <<"\\", "&">>)
        ELSE \A i \in DOMAIN escOut :
                 escOut[i] = "&" => i > 1 /\ escOut[i - 1] = "\\"

\* the Projects block of the document is empty: the list opens and closes
\* with nothing in between
ProjectsBlockEmpty(doc) == Contains(doc, <<ProjectsOpen, ProjectsClose>>)

\* C10: each of the sections experiences, education, projects and positions
\* that has no data is rendered as a placeholder fragment, never as an empty
\* block.
C10_PlaceholderFragments ==
    call = "generate_latex" =>
        LET metadata == Val(renderIn)
            doc == Chars(renderOut)
        IN  /\ metadata.experiences = <<>> => Contains(doc, ExperiencePlaceholder)
            /\ metadata.education = <<>> => Contains(doc, EducationPlaceholder)
            /\ metadata.positions_of_responsibility = <<>> =>
                   Contains(doc, PositionsPlaceholder)
            /\ metadata.projects = <<>> => ~ProjectsBlockEmpty(doc)

-----------------------------------------------------------------------------
(* Claims about compile_latex_online and compile_latex_with_retry          *)
(* (SpecCompile)                                                           *)

\* the chain run that outcomes describes has returned
ChainReturned == cPhase \in {"returned", "sleeping", "done"}

\* entry i of outcomes is a backend that returned failure or raised
BackendFailed(i) ==
    \/ outcomes[i].met.kind = "raises"
    \/ ~service_func(outcomes[i].service, outcomes[i].met).success

\* C11: compile_latex_online tries the backends in the priority order of
\* services (YtoTech JSON POST, then YtoTech GET); every backend before the
\* last one tried has failed, so none is tried after a success; a backend that
\* raises is recorded as a failed attempt and the next backend is still tried;
\* and when the last backend tried returns PDF bytes after earlier failures,
\* the chain returns success with exactly those bytes and an empty error string.
C11_FallbackChainSuccess ==
    /\ \A i \in DOMAIN outcomes : outcomes[i].service = i
    /\ \A i \in DOMAIN outcomes : i < Len(outcomes) => BackendFailed(i)
    /\ \A i \in DOMAIN outcomes :
          outcomes[i].met.kind = "raises" =>
              /\ Len(errors) >= i
              /\ i < Len(ServiceNames) =>
                     \/ Len(outcomes) > i
                     \/ cPhase = "chain" /\ svc = i + 1
    /\ ChainReturned /\ ~BackendFailed(Len(outcomes)) =>
          chainResult =
              Some(Result(TRUE, Some(outcomes[Len(outcomes)].met.content), <<>>))

\* backend A answered HTTP 500, backend B answered with a PDF, and the chain
\* has returned
C11_Witness ==
    /\ ChainReturned
    /\ Len(outcomes) = 2
    /\ outcomes[1].met.kind = "response"
    /\ outcomes[1].met.status_code = 500
    /\ outcomes[2].met.kind = "response"
    /\ outcomes[2].met.content = PdfBody
    /\ Val(chainResult).success

\* the error message of the backend at entry i of outcomes as the chain takes
\* it: the error the backend returned, or the first ExceptionTextLimit
\* characters of the text of the exception it raised
BackendMessage(i) ==
    IF outcomes[i].met.kind = "raises"
    THEN Take(outcomes[i].met.message, ExceptionTextLimit)
    ELSE service_func(outcomes[i].service, outcomes[i].met).error

AllBackendsFailed ==
    /\ ChainReturned
    /\ \A i \in DOMAIN outcomes : BackendFailed(i)

\* the error string that names every backend with the given message, in
\* attempt order, joined by "; "
CombinedErrors(message(_)) ==
    <<Piece("All compilation services failed: ", 33)>> \o
    JoinTexts(<<Piece("; ", 2)>>,
              [i \in DOMAIN outcomes |->
                   ServiceNames[i] \o <<Piece(": ", 2)>> \o message(i)])

\* C12: when every backend failed, every backend was attempted exactly once,
\* the chain returns failure without bytes, and its error string holds, in
\* attempt order and joined by "; ", each backend's error message: the error
\* the backend returned, or the first 100 characters of the text of the
\* exception it raised.
C12_Exhaustion ==
    AllBackendsFailed =>
        /\ Len(outcomes) = Len(ServiceNames)
        /\ \A i \in DOMAIN outcomes : outcomes[i].service = i
        /\ ~Val(chainResult).success
        /\ Val(chainResult).pdf_bytes = None
        /\ Val(chainResult).error = CombinedErrors(BackendMessage)

\* the first backend raised with a text longer than the limit, the second
\* returned a failure, and the chain has returned
C12_Witness ==
    /\ AllBackendsFailed
    /\ Len(outcomes) = 2
    /\ outcomes[1].met.kind = "raises"
    /\ Length(outcomes[1].met.message) > ExceptionTextLimit
    /\ outcomes[2].met.kind = "response"
    /\ outcomes[2].met.status_code = 500

\* the delays before attempts 2 .. k + 1: twice the number of the attempt
\* that failed
Backoff(k) == [i \in 1..k |-> 2 * i]

C19_ResultWellFormed ==
    /\ ChainReturned =>
          /\ chainResult # None
          /\ IF Val(chainResult).success
             THEN /\ Val(chainResult).error = <<>>
                  /\ Val(chainResult).pdf_bytes # None
                  /\ Take(Val(Val(chainResult).pdf_bytes), 4) = <<Piece("%PDF", 4)>>
                  /\ outcomes[Len(outcomes)].met.kind = "response"
                  /\ outcomes[Len(outcomes)].met.status_code \in {200, 201}
                  /\ outcomes[Len(outcomes)].met.content =
                         Val(Val(chainResult).pdf_bytes)
             ELSE /\ Val(chainResult).pdf_bytes = None
                  /\ Length(Val(chainResult).error) > 0
    /\ cPhase = "raised" => outcomes = <<>> /\ max_retries = 0
    /\ \A i \in DOMAIN outcomes :
          outcomes[i].met.kind \in {"raises", "Timeout", "RequestException", "Exception"} =>
              /\ Len(errors) >= i
              /\ cPhase # "raised"

\* the first backend got a 200 response whose body is not a PDF, the second
\* raised, and the chain has returned
C19_Witness ==
    /\ ChainReturned
    /\ Len(outcomes) = 2
    /\ outcomes[1].met.kind = "response"
    /\ outcomes[1].met.status_code = 200
    /\ outcomes[1].met.content = TruncatedMagic
    /\ outcomes[2].met.kind = "raises"
    /\ ~Val(chainResult).success

-----------------------------------------------------------------------------
(* Claims about the generation stages and the response (Spec) *)

HasReturned(n) == \E i \in DOMAIN returned : returned[i] = n

\* C14: once generate_projects has returned, generated_projects holds exactly
\* 3 projects, each with at most 3 technologies and with 2 or 3 achievements.
C14_ProjectsCap ==
    HasReturned("generate_projects") =>
        /\ state.generated_projects # None
        /\ Len(Val(state.generated_projects)) = 3
        /\ \A i \in DOMAIN Val(state.generated_projects) :
              /\ Len(Val(state.generated_projects)[i].technologies) <= 3
              /\ Len(Val(state.generated_projects)[i].achievements) \in {2, 3}

\* C15: no response exists before the run is over; a response that reports
\* success comes only after all five stages have returned and no stage raised,
\* and carries the record create_metadata assembled and the document
\* generate_latex produced; when a stage raised, the response reports failure
\* with a message and carries neither record nor document.
C15_NoPartialOutput ==
    /\ phase # "responded" => response = None
    /\ phase = "responded" =>
          /\ response # None
          /\ Val(response).success =>
                /\ error = None
                /\ returned = Nodes
                /\ Val(response).error = None
                /\ Val(response).metadata # None
                /\ Val(response).metadata = create_metadata(state).resume_metadata
                /\ Val(response).latex_code # None
                /\ Val(response).latex_code =
                       Some(Chars(GenerateLatexDoc(Val(Val(response).metadata))))
          /\ error # None => ~Val(response).success
          /\ ~Val(response).success =>
                /\ Val(response).error # None
                /\ Val(response).metadata = None
                /\ Val(response).latex_code = None

\* the record was assembled, generate_latex raised, and the failure response
\* carries no record
C15_Witness ==
    /\ phase = "responded"
    /\ error = Some(ErrorOf("generate_latex"))
    /\ state.resume_metadata # None
    /\ ~Val(response).success
    /\ Val(response).metadata = None

-----------------------------------------------------------------------------
(* More claims about generate_latex (SpecLatex) *)

\* C16: every call of generate_latex with a record of the ResumeMetadata
\* schema returns, and returns a document.
C16_RenderingTotal ==
    renderIn # None =>
        /\ call = "generate_latex"
        /\ renderOut # <<>>

-----------------------------------------------------------------------------
(* More claims about create_metadata (SpecAssembly) *)

\* the list fields that are copied from the extracted record
CopiedLists ==
    {"experiences", "education", "soft_skills", "positions_of_responsibility",
     "certifications"}

\* some dict of the coding_stats list lacks platform or description
MalformedCodingItem(extracted) ==
    /\ "coding_stats" \in DOMAIN extracted
    /\ extracted["coding_stats"].kind = "list"
    /\ \E i \in DOMAIN extracted["coding_stats"].list :
          /\ extracted["coding_stats"].list[i].isdict
          /\ DOMAIN extracted["coding_stats"].list[i].d # {"platform", "description"}

\* C17: whatever keys the extracted record lacks, create_metadata returns
\* (the only raise is the KeyError on a malformed coding_stats item), and in
\* the record it builds a missing name is "John Doe", a missing email is
\* "john@example.com", a missing experiences, education, soft_skills,
\* positions_of_responsibility or certifications is the empty list, missing
\* projects contribute the empty list (the generated projects, if any, take
\* their place as for a record that has projects), and every one of these
\* fields, and phone, github and linkedin, that the record has is copied.
C17_AssemblyDefaulting ==
    asmIn # None =>
        LET extracted == Val(Val(asmIn).extracted_info)
        IN  /\ asmOut = None => MalformedCodingItem(extracted)
            /\ asmOut # None =>
                  /\ Val(asmOut).name =
                         IF "name" \in DOMAIN extracted
                         THEN extracted["name"] ELSE <<"John Doe">>
                  /\ Val(asmOut).email =
                         IF "email" \in DOMAIN extracted
                         THEN extracted["email"] ELSE <<"john@example.com">>
                  /\ \A f \in CopiedLists :
                         Val(asmOut)[f] =
                             IF f \in DOMAIN extracted THEN extracted[f] ELSE <<>>
                  /\ \A f \in {"phone", "github", "linkedin"} :
                         Val(asmOut)[f] =
                             IF f \in DOMAIN extracted THEN extracted[f] ELSE None
                  /\ "projects" \notin DOMAIN extracted =>
                         Val(asmOut).projects =
                             IF Val(asmIn).generated_projects = None
                             THEN <<>>
                             ELSE Val(Val(asmIn).generated_projects)

\* the record lacks all eight required fields, nothing was generated, and
\* create_metadata has returned
C17_Witness ==
    /\ asmIn # None
    /\ asmOut # None
    /\ DOMAIN Val(Val(asmIn).extracted_info) \cap
           ({"name", "email", "projects"} \cup CopiedLists) = {}
    /\ "technical_skills" \in DOMAIN Val(Val(asmIn).extracted_info)
    /\ Val(asmIn).generated_projects = None
    /\ Val(asmOut).name = <<"John Doe">>
    /\ Val(asmOut).projects = <<>>

PlaceholderNames ==
    {"NAME", "EMAIL", "PHONE", "LINKEDIN", "EXPERIENCE", "EDUCATION", "PROJECTS",
     "TECHNICAL_SKILLS", "POSITIONS"}

\* what generate_latex puts in the place of {{name}}
FragmentOf(metadata, name) ==
    CASE name = "NAME" -> Esc(metadata.name)
      [] name = "EMAIL" -> Esc(metadata.email)
      [] name = "PHONE" -> Esc(OrDefault(metadata.phone, <<"+91 1234567890">>))
      [] name = "LINKEDIN" ->
             Esc(OrDefault(metadata.linkedin, <<"linkedin.com/in/yourprofile">>))
      [] name = "EXPERIENCE" -> experience_latex(metadata)
      [] name = "EDUCATION" -> education_latex(metadata)
      [] name = "PROJECTS" -> projects_latex(metadata)
      [] name = "TECHNICAL_SKILLS" -> technical_skills_latex(metadata)
      [] name = "POSITIONS" -> por_latex(metadata)

\* the template read once from left to right, each placeholder of the
\* template giving way to its fragment; inserted text is not read again
RECURSIVE SubstituteOnce(_, _)
SubstituteOnce(template, metadata) ==
    IF template = <<>> THEN <<>>
    ELSE IF /\ Len(template) >= 5
            /\ template[3] \in PlaceholderNames
            /\ SubSeq(template, 1, 5) = Placeholder(template[3])
    THEN FragmentOf(metadata, template[3])
         \o SubstituteOnce(SubSeq(template, 6, Len(template)), metadata)
    ELSE <<[c |-> Head(template), o |-> "template"]>>
         \o SubstituteOnce(Tail(template), metadata)

\* C20: the document generate_latex returns contains none of the nine
\* placeholders, and it is the template with each of its own placeholders
\* replaced by its fragment: no replacement step has matched inside text that
\* an earlier step inserted, even when that text spells a placeholder.
C20_NoPlaceholderSurvives ==
    call = "generate_latex" =>
        /\ \A name \in PlaceholderNames :
              ~Contains(Chars(renderOut), Placeholder(name))
        /\ renderOut = SubstituteOnce(get_latex_template, Val(renderIn))

\* the name spells the POSITIONS placeholder, which is replaced last, and is
\* in the returned document in its escaped form
C20_Witness ==
    /\ call = "generate_latex"
    /\ Val(renderIn).name = Placeholder("POSITIONS")
    /\ Contains(Chars(renderOut), escape_latex(Placeholder("POSITIONS")))

-----------------------------------------------------------------------------
(* Claims about concurrent requests (SpecConcurrent) *)

\* what node n returns for state st when the service gives the answers got
StageAlone(n, st, got) ==
    CASE n = "extract_info" -> extract_resume_info(st, Val(got.extracted))
      [] n = "generate_projects" -> generate_projects(st, Val(got.projects))
      [] n = "generate_skills" -> generate_skills(st, Val(got.skills))
      [] n = "create_metadata" -> create_metadata(st)
      [] n = "generate_latex" -> generate_latex(st)

\* the state of a request that runs alone on resume_text, after k stages
RECURSIVE RunAlone(_, _, _)
RunAlone(resume_text, got, k) ==
    IF k = 0 THEN InitialState(resume_text, "job")
    ELSE LET st == RunAlone(resume_text, got, k - 1)
         IN  ApplyUpdate(st, StageAlone(Nodes[k], st, got))

\* C18: in every interleaving, a request starts from a fresh state whose
\* computed fields are all None; at every moment its state is the state it
\* would have after the same number of stages had it run alone with the same
\* input and the same service answers, whatever the other requests did; and
\* its response carries the record and the document of that run alone, or
\* the error of its own failed stage.
C18_RequestIndependence ==
    \A r \in Requests :
        reqs[r].phase # "idle" =>
            /\ reqs[r].done = SubSeq(Nodes, 1, Len(reqs[r].done))
            /\ reqs[r].done = <<>> =>
                   /\ \A f \in ComputedFields : reqs[r].state[f] = None
                   /\ reqs[r].state.messages = <<>>
            /\ reqs[r].state =
                   RunAlone(reqs[r].input, reqs[r].got, Len(reqs[r].done))
            /\ reqs[r].phase = "responded" =>
                   IF reqs[r].error = None
                   THEN LET alone == RunAlone(reqs[r].input, reqs[r].got, Len(Nodes))
                        IN  /\ Val(reqs[r].response).success
                            /\ Val(reqs[r].response).metadata = alone.resume_metadata
                            /\ Val(reqs[r].response).latex_code = alone.latex_code
                   ELSE /\ ~Val(reqs[r].response).success
                        /\ Val(reqs[r].response).error =
                               Some(ErrorOf(Nodes[Len(reqs[r].done) + 1]))

\* two requests with different resumes are in flight at the same time, the
\* first with its record assembled, the second with its projects generated,
\* and they got different projects from the service
C18_Witness ==
    /\ reqs[1].phase = "running"
    /\ reqs[2].phase = "running"
    /\ reqs[1].input # reqs[2].input
    /\ Len(reqs[1].done) = 4
    /\ Len(reqs[2].done) = 2
    /\ reqs[1].got.projects # reqs[2].got.projects
    /\ reqs[1].state.resume_metadata # None
    /\ reqs[2].state.resume_metadata = None

\* the fields of ResumeMetadata that generate_latex reads
RenderedFields ==
    {"name", "email", "phone", "linkedin", "experiences", "education", "projects",
     "technical_skills", "positions_of_responsibility"}

\* C21: two generate_latex calls whose records agree on name, email, phone,
\* linkedin, experiences, education, projects, technical_skills (the same
\* categories in the same order) and positions_of_responsibility return the
\* same document, whatever github, soft_skills, certifications and
\* coding_stats are; in particular two calls with the same record do.
C21_RenderedFieldsOnly ==
    (/\ renderIn # None
     /\ renderIn2 # None
     /\ \A f \in RenderedFields : Val(renderIn)[f] = Val(renderIn2)[f])
        => /\ renderOut2 = renderOut
           /\ Chars(renderOut2) = Chars(renderOut)

\* the second call had a record with github, soft_skills, certifications and
\* coding_stats all different from the first call's, and the same rendered
\* fields
C21_Witness ==
    /\ renderIn # None
    /\ renderIn2 # None
    /\ renderOut2 # <<>>
    /\ \A f \in RenderedFields : Val(renderIn)[f] = Val(renderIn2)[f]
    /\ Val(renderIn).github # Val(renderIn2).github
    /\ Val(renderIn).soft_skills # Val(renderIn2).soft_skills
    /\ Val(renderIn).certifications # Val(renderIn2).certifications
    /\ Val(renderIn).coding_stats # Val(renderIn2).coding_stats
    /\ Val(renderIn).positions_of_responsibility = <<>>

====
